---- MODULE Spec2Model ----
(***************************************************************************)
(* Model of scripts/analyze_call_durations.py: the payload decoder         *)
(* (decode_payload), the call record extractor (extract_call_data), the    *)
(* deduplicating aggregator (process_webhooks) and the paginated fetch     *)
(* (fetch_webhooks).                                                       *)
(*                                                                         *)
(* Python values are tagged records, so that values of different Python    *)
(* types can be compared:                                                  *)
(*   None   [t |-> "null"]              bool   [t |-> "bool", b |-> TRUE]  *)
(*   int    [t |-> "int", n |-> 5]      float  [t |-> "float", x |-> 5]    *)
(*   str    [t |-> "str", s |-> "A"]    list   [t |-> "list", l |-> <<>>]  *)
(*   dict   [t |-> "dict", d |-> f]     (f a function on its keys)         *)
(*   str holding an encoded payload     [t |-> "text", b64, js]            *)
(* A call either returns or raises: [st |-> "ok", v |-> value] or          *)
(* [st |-> "raise", exc |-> name].                                         *)
(***************************************************************************)
EXTENDS Integers, Sequences, FiniteSets, TLC

VARIABLES
    payload, decoded,                          \* decode_payload: argument, outcome
    document, call_data,                       \* extract_call_data: argument, outcome
    webhooks, i, results, seen_call_ids, pc,   \* process_webhooks
    store, start_date, offset, all_webhooks, fpc   \* fetch_webhooks

vars == << payload, decoded, document, call_data,
           webhooks, i, results, seen_call_ids, pc,
           store, start_date, offset, all_webhooks, fpc >>

decodeVars == << payload, decoded >>
extractVars == << document, call_data >>
processVars == << webhooks, i, results, seen_call_ids, pc >>
fetchVars == << store, start_date, offset, all_webhooks, fpc >>

----------------------------------------------------------------------------
(* Python values *)

None == [t |-> "null"]
BoolV(b) == [t |-> "bool", b |-> b]
IntV(n) == [t |-> "int", n |-> n]
FloatV(x) == [t |-> "float", x |-> x]
StrV(s) == [t |-> "str", s |-> s]
ListV(l) == [t |-> "list", l |-> l]
DictV(f) == [t |-> "dict", d |-> f]

EmptyDict == DictV(<<>>)
EmptyList == ListV(<<>>)

Ok(v) == [st |-> "ok", v |-> v]
Raise(e) == [st |-> "raise", exc |-> e]

\* Marks a key that a constructed mapping leaves out; never a Python value.
Absent == [t |-> "absent"]

\* The mapping with the keys of f whose value is not Absent.
MkDict(f) == DictV([k \in {k \in DOMAIN f : f[k] # Absent} |-> f[k]])

\* isinstance(v, dict), isinstance(v, str)
IsDict(v) == v.t = "dict"
IsStr(v) == v.t \in {"str", "text"}

\* v.get(key, default); only a dict has the method.
Get(v, key, default) ==
    IF ~IsDict(v) THEN Raise("AttributeError")
    ELSE IF key \in DOMAIN v.d THEN Ok(v.d[key])
    ELSE Ok(default)

\* bool(v): the truth value Python gives v.
Truthy(v) ==
    CASE v.t = "null" -> FALSE
      [] v.t = "bool" -> v.b
      [] v.t = "int" -> v.n # 0
      [] v.t = "float" -> v.x # 0
      [] v.t = "str" -> v.s # ""
      [] v.t = "text" -> TRUE
      [] v.t = "list" -> Len(v.l) > 0
      [] v.t = "dict" -> DOMAIN v.d # {}

\* hash(v) is defined: lists and dicts are unhashable.
Hashable(v) == v.t \notin {"list", "dict"}

----------------------------------------------------------------------------
(* The library calls of decode_payload.  A str holding an encoded payload  *)
(* carries what base64.b64decode and json.loads make of it, a bytes value   *)
(* what gzip.decompress and bytes.decode('utf-8') make of it.               *)

Text(b64, js) == [t |-> "text", b64 |-> b64, js |-> js]
Bytes(gz, utf8) == [t |-> "bytes", gz |-> gz, utf8 |-> utf8]

\* Decimal numerals, the strings that int() and float() read in the model.
Numerals == <<"0", "1", "2", "3", "4", "5", "6", "7", "8", "9">>
IsNumeral(s) == \E k \in 1..Len(Numerals) : Numerals[k] = s
NumeralValue(s) == (CHOOSE k \in 1..Len(Numerals) : Numerals[k] = s) - 1

\* base64.b64decode(s)
b64decode(s) ==
    IF s.t = "text" THEN s.b64 ELSE Raise("binascii.Error")

\* gzip.decompress(b)
gzip_decompress(b) == b.gz

\* b.decode('utf-8')
bytes_decode(b) == b.utf8

\* json.loads(s)
json_loads(s) ==
    IF s.t = "text" THEN s.js
    ELSE IF IsNumeral(s.s) THEN Ok(IntV(NumeralValue(s.s)))
    ELSE Raise("JSONDecodeError")

\* decode_payload without the plain JSON parse of lines 68-69.
decode_payload_NoFallback(p) ==
    IF IsDict(p) THEN Ok(p)
    ELSE IF IsStr(p) THEN
        LET decoded_bytes == b64decode(p)
            decompressed == IF decoded_bytes.st = "ok"
                            THEN gzip_decompress(decoded_bytes.v)
                            ELSE decoded_bytes
            text == IF decompressed.st = "ok"
                    THEN bytes_decode(decompressed.v)
                    ELSE decompressed
            parsed == IF text.st = "ok" THEN json_loads(text.v) ELSE text
        IN  IF parsed.st = "ok" THEN Ok(parsed.v) ELSE Ok(EmptyDict)
    ELSE Ok(EmptyDict)

\* decode_payload(payload): every exception of the first strategy is caught
\* and the plain JSON parse is tried; its exceptions are caught too.
decode_payload(p) ==
    IF IsDict(p) THEN Ok(p)
    ELSE IF IsStr(p) THEN
        LET decoded_bytes == b64decode(p)
            decompressed == IF decoded_bytes.st = "ok"
                            THEN gzip_decompress(decoded_bytes.v)
                            ELSE decoded_bytes
            text == IF decompressed.st = "ok"
                    THEN bytes_decode(decompressed.v)
                    ELSE decompressed
            parsed == IF text.st = "ok" THEN json_loads(text.v) ELSE text
        IN  IF parsed.st = "ok" THEN Ok(parsed.v)
            ELSE LET plain == json_loads(p)
                 IN  IF plain.st = "ok" THEN Ok(plain.v) ELSE Ok(EmptyDict)
    ELSE Ok(EmptyDict)

----------------------------------------------------------------------------
(* extract_call_data *)

DASHBOARD_BASE_URL == "https://hellocounsel-dashboard.vercel.app/calls"
DASHBOARD_PARAMS == "f=0&e=production&s=N4IgJgtiBcIJ4FMDOAXBAnMBDOIA0ISYMIATAAykBsAtOQIw2kAs%2BICxsF1djAzPRABfIA"

\* The largest magnitude float() converts from an int; it stands for
\* sys.float_info.max.  A larger int raises OverflowError.
FloatMax == 1000000

\* len(v)
PyLen(v) ==
    CASE v.t = "list" -> Ok(Len(v.l))
      [] v.t = "dict" -> Ok(Cardinality(DOMAIN v.d))
      [] v.t = "str" -> Ok(IF v.s = "" THEN 0 ELSE 1)
      [] OTHER -> Raise("TypeError")

\* v[0] in the place of v[-1].
LastItem_First(v) ==
    CASE v.t = "list" ->
            IF Len(v.l) = 0 THEN Raise("IndexError") ELSE Ok(v.l[1])
      [] v.t = "str" -> IF v.s = "" THEN Raise("IndexError") ELSE Ok(v)
      [] v.t = "dict" -> Raise("KeyError")
      [] OTHER -> Raise("TypeError")

\* v[-1], for a v that len() accepts; the strings of the model have at most
\* one character, and the keys of a JSON mapping are strings.
LastItem(v) ==
    CASE v.t = "list" ->
            IF Len(v.l) = 0 THEN Raise("IndexError") ELSE Ok(v.l[Len(v.l)])
      [] v.t = "str" -> IF v.s = "" THEN Raise("IndexError") ELSE Ok(v)
      [] v.t = "dict" -> Raise("KeyError")
      [] OTHER -> Raise("TypeError")

\* float(v)
PyFloat(v) ==
    CASE v.t = "float" -> Ok(v)
      [] v.t = "int" ->
            IF v.n > FloatMax \/ v.n < -FloatMax THEN Raise("OverflowError")
            ELSE Ok(FloatV(v.n))
      [] v.t = "bool" -> Ok(FloatV(IF v.b THEN 1 ELSE 0))
      [] v.t = "str" ->
            IF IsNumeral(v.s) THEN Ok(FloatV(NumeralValue(v.s)))
            ELSE Raise("ValueError")
      [] OTHER -> Raise("TypeError")

\* str(v), as an f-string formats v; a mapping is formatted key by key.
RECURSIVE PyRepr(_)
RECURSIVE JoinItems(_)
RECURSIVE JoinKeys(_, _)
PyStr(v) ==
    CASE v.t = "str" -> v.s
      [] v.t = "null" -> "None"
      [] v.t = "bool" -> IF v.b THEN "True" ELSE "False"
      [] v.t = "int" -> ToString(v.n)
      [] v.t = "float" -> ToString(v.x) \o ".0"
      [] v.t = "list" -> "[" \o JoinItems(v.l) \o "]"
      [] v.t = "dict" -> "{" \o JoinKeys(v.d, DOMAIN v.d) \o "}"
PyRepr(v) == IF v.t = "str" THEN "'" \o v.s \o "'" ELSE PyStr(v)
JoinItems(l) ==
    IF Len(l) = 0 THEN ""
    ELSE IF Len(l) = 1 THEN PyRepr(l[1])
    ELSE PyRepr(l[1]) \o ", " \o JoinItems(Tail(l))
JoinKeys(f, keys) ==
    IF keys = {} THEN ""
    ELSE LET k == CHOOSE x \in keys : TRUE
             item == "'" \o k \o "': " \o PyRepr(f[k])
         IN  IF keys = {k} THEN item
             ELSE item \o ", " \o JoinKeys(f, keys \ {k})

\* The block of lines 98-101: the secondsFromStart of messages[-1].
LastMessageTimestamp(messages) ==
    IF ~Truthy(messages) THEN Ok(None)
    ELSE LET n == PyLen(messages)
         IN  IF n.st # "ok" THEN n
             ELSE IF ~(n.v > 0) THEN Ok(None)
             ELSE LET last_message == LastItem(messages)
                  IN  IF last_message.st # "ok" THEN last_message
                      ELSE Get(last_message.v, "secondsFromStart", None)

\* The block of lines 109-114: only ValueError and TypeError are caught.
Difference(duration_seconds, last_message_timestamp) ==
    IF duration_seconds # None /\ last_message_timestamp # None
    THEN LET a == PyFloat(duration_seconds)
             b == IF a.st = "ok" THEN PyFloat(last_message_timestamp) ELSE a
         IN  IF b.st = "ok" THEN Ok(FloatV(a.v.x - b.v.x))
             ELSE IF b.exc \in {"ValueError", "TypeError"} THEN Ok(None)
             ELSE b
    ELSE Ok(None)

\* The formatted string of line 117.
DashboardUrl(call_id) ==
    DASHBOARD_BASE_URL \o "?" \o DASHBOARD_PARAMS \o "&c=" \o PyStr(call_id)

\* CallRecord with the duration stored as the float the difference used.
CallRecord_Coerced(call_id, duration_seconds, last_message_timestamp, difference, started_at, ended_at, ended_reason) ==
    DictV([callID |-> call_id,
           dashboardURL |-> StrV(DashboardUrl(call_id)),
           vapiCallDuration |-> IF difference # None
                                THEN PyFloat(duration_seconds).v
                                ELSE duration_seconds,
           lastMessageTimeStamp |-> last_message_timestamp,
           difference |-> difference,
           startedAt |-> started_at,
           endedAt |-> ended_at,
           endedReason |-> ended_reason])

\* The record of lines 119-128.
CallRecord(call_id, duration_seconds, last_message_timestamp, difference, started_at, ended_at, ended_reason) ==
    DictV([callID |-> call_id,
           dashboardURL |-> StrV(DashboardUrl(call_id)),
           vapiCallDuration |-> duration_seconds,
           lastMessageTimeStamp |-> last_message_timestamp,
           difference |-> difference,
           startedAt |-> started_at,
           endedAt |-> ended_at,
           endedReason |-> ended_reason])

extract_call_data(p) ==
    LET message == Get(p, "message", EmptyDict)
    IN  IF message.st # "ok" THEN message ELSE
    LET call == Get(message.v, "call", EmptyDict)
    IN  IF call.st # "ok" THEN call ELSE
    LET call_id == Get(call.v, "id", None)
    IN  IF call_id.st # "ok" THEN call_id ELSE
        IF ~Truthy(call_id.v) THEN Ok(None) ELSE
    LET duration_seconds == Get(message.v, "durationSeconds", None)
        artifact == Get(message.v, "artifact", EmptyDict)
        messages == Get(artifact.v, "messages", EmptyList)
    IN  IF messages.st # "ok" THEN messages ELSE
    LET last_message_timestamp == LastMessageTimestamp(messages.v)
    IN  IF last_message_timestamp.st # "ok" THEN last_message_timestamp ELSE
    LET started_at == Get(message.v, "startedAt", None)
        ended_at == Get(message.v, "endedAt", None)
        ended_reason == Get(message.v, "endedReason", None)
        difference == Difference(duration_seconds.v, last_message_timestamp.v)
    IN  IF difference.st # "ok" THEN difference ELSE
        Ok(CallRecord(call_id.v, duration_seconds.v, last_message_timestamp.v,
                      difference.v, started_at.v, ended_at.v, ended_reason.v))

----------------------------------------------------------------------------
(* process_webhooks *)

\* LoopBody without the membership test of line 187.
LoopBody_NoDedup(webhook, res, seen) ==
    LET raised(e) == [st |-> "raise", exc |-> e, results |-> res, seen |-> seen]
        raw == Get(webhook, "payload", EmptyDict)
    IN  IF raw.st # "ok" THEN raised(raw.exc) ELSE
    LET p == decode_payload(raw.v)
    IN  IF p.st # "ok" THEN raised(p.exc) ELSE
    LET cd == extract_call_data(p.v)
    IN  IF cd.st # "ok" THEN raised(cd.exc)
        ELSE IF ~Truthy(cd.v)
        THEN [st |-> "ok", results |-> res, seen |-> seen]
        ELSE IF ~Hashable(cd.v.d.callID) THEN raised("TypeError")
        ELSE [st |-> "ok", results |-> Append(res, cd.v),
              seen |-> seen \cup {cd.v.d.callID}]

\* The body of the loop of lines 180-189 for one webhook: the outcome and the
\* results and seen_call_ids it leaves.  A membership test on a set hashes
\* its operand, so an unhashable callID raises TypeError.
LoopBody(webhook, res, seen) ==
    LET raised(e) == [st |-> "raise", exc |-> e, results |-> res, seen |-> seen]
        raw == Get(webhook, "payload", EmptyDict)
    IN  IF raw.st # "ok" THEN raised(raw.exc) ELSE
    LET p == decode_payload(raw.v)
    IN  IF p.st # "ok" THEN raised(p.exc) ELSE
    LET cd == extract_call_data(p.v)
    IN  IF cd.st # "ok" THEN raised(cd.exc)
        ELSE IF ~Truthy(cd.v)
        THEN [st |-> "ok", results |-> res, seen |-> seen]
        ELSE IF ~Hashable(cd.v.d.callID) THEN raised("TypeError")
        ELSE IF cd.v.d.callID \notin seen
        THEN [st |-> "ok", results |-> Append(res, cd.v),
              seen |-> seen \cup {cd.v.d.callID}]
        ELSE [st |-> "ok", results |-> res, seen |-> seen]

----------------------------------------------------------------------------
(* fetch_webhooks.  The store is the set of the received_at values of its   *)
(* rows, all distinct.  page_size is 1000 in the source (line 140); the      *)
(* model scales it down.                                                     *)

page_size == 3

\* The elements of the set S, largest first.
RECURSIVE SortDesc(_)
SortDesc(S) ==
    IF S = {} THEN <<>>
    ELSE LET m == CHOOSE x \in S : \A y \in S : y <= x
         IN  <<m>> \o SortDesc(S \ {m})

\* Range with the upper end left out, as a slice would cut.
Range_Exclusive(seq, from, to) ==
    LET last == IF to < Len(seq) THEN to ELSE Len(seq)
    IN  IF from + 1 > last THEN <<>> ELSE SubSeq(seq, from + 1, last)

\* The rows of seq at the zero-based positions from..to, as range() cuts them.
Range(seq, from, to) ==
    LET last == IF to + 1 < Len(seq) THEN to + 1 ELSE Len(seq)
    IN  IF from + 1 > last THEN <<>> ELSE SubSeq(seq, from + 1, last)

\* The query of lines 146-153 against the rows st.
Query(st, since, from, to) ==
    Range(SortDesc({r \in st : r >= since}), from, to)

----------------------------------------------------------------------------
(* Bounds and inputs *)

MaxMessages == 2    \* longest artifact.messages list
MaxLen == 4         \* longest list of webhooks
MaxStamp == 6       \* the store holds rows received at 1..MaxStamp
MaxStart == 3       \* the window starts at 1..MaxStart

\* All sequences over S of length at most n.
SeqsUpTo(S, n) == UNION {[1..k -> S] : k \in 0..n}

\* What the encoders produce: the text json.dumps gives is not base64, the
\* bytes of a text are not a gzip stream, a gzip stream is not UTF-8 and a
\* base64 text is not JSON.
json_dumps(v) == Text(Raise("binascii.Error"), Ok(v))
utf8_encode(s) == Bytes(Raise("BadGzipFile"), Ok(s))
gzip_compress(b) == Bytes(Ok(b), Raise("UnicodeDecodeError"))
b64encode(b) == Text(Ok(b), Raise("JSONDecodeError"))

\* base64(gzip(json(v))), the stored form of a payload.
Encoded(v) == b64encode(gzip_compress(utf8_encode(json_dumps(v))))

\* A complete webhook document of the call id.
CallDoc(id, dur) ==
    DictV([message |-> DictV(
        [call |-> DictV([id |-> id]),
         durationSeconds |-> dur,
         artifact |-> DictV([messages |->
             ListV(<<DictV([secondsFromStart |-> IntV(1)]),
                     DictV([secondsFromStart |-> IntV(9)])>>)]),
         startedAt |-> StrV("s"),
         endedAt |-> StrV("e"),
         endedReason |-> StrV("r")])])

\* Inputs of decode_payload: every text whose base64, gzip, UTF-8 and JSON
\* steps each succeed or fail, and values of the other types.
JsonValues ==
    {EmptyDict, CallDoc(StrV("A"), IntV(10)), ListV(<<IntV(1)>>), IntV(5),
     None, StrV("A")}
JsResults == {Raise("JSONDecodeError")} \cup {Ok(v) : v \in JsonValues}
InnerTexts == {Text(Raise("binascii.Error"), j) : j \in JsResults}
Utf8Results == {Raise("UnicodeDecodeError")} \cup {Ok(s) : s \in InnerTexts}
InnerBytes == {Bytes(Raise("BadGzipFile"), u) : u \in Utf8Results}
GzResults == {Raise("BadGzipFile")} \cup {Ok(b) : b \in InnerBytes}
OuterBytes == {Bytes(g, Raise("UnicodeDecodeError")) : g \in GzResults}
B64Results == {Raise("binascii.Error")} \cup {Ok(b) : b \in OuterBytes}
Texts == {Text(b, j) : b \in B64Results, j \in JsResults}
DecodePayloads ==
    Texts \cup {EmptyDict, CallDoc(StrV("A"), IntV(10)), None, IntV(5),
                ListV(<<IntV(1)>>), BoolV(TRUE), StrV("A"), StrV("7")}

\* Inputs of extract_call_data: documents whose message, call, id,
\* durationSeconds, artifact, messages and secondsFromStart are each missing,
\* of the expected type or of another type.
HugeInt == FloatMax + 1
Ids ==
    {None, StrV(""), IntV(0), BoolV(FALSE), StrV("A"), StrV("B"), IntV(7),
     ListV(<<StrV("x")>>)}
Calls == {Absent, None, EmptyDict} \cup {DictV([id |-> v]) : v \in Ids}
Durations ==
    {Absent, None, IntV(0), IntV(10), FloatV(62), StrV("7"), StrV("x"),
     BoolV(TRUE), EmptyList, IntV(HugeInt)}
Stamps == {Absent, None, IntV(0), IntV(1), IntV(9), StrV("3"), StrV("x")}
Entries == {IntV(5)} \cup {MkDict([secondsFromStart |-> v]) : v \in Stamps}
MessageLists ==
    {Absent, None, IntV(5), StrV("x"), DictV([a |-> IntV(1)])}
        \cup {ListV(l) : l \in SeqsUpTo(Entries, MaxMessages)}
Artifacts ==
    {Absent, None, IntV(5)} \cup {MkDict([messages |-> m]) : m \in MessageLists}
Metas == {<<Absent, Absent, Absent>>, <<StrV("s"), StrV("e"), StrV("r")>>}
Messages ==
    {Absent, None, ListV(<<IntV(1)>>)}
        \cup {MkDict([call |-> c, durationSeconds |-> d, artifact |-> a,
                      startedAt |-> m[1], endedAt |-> m[2],
                      endedReason |-> m[3]]) :
                c \in Calls, d \in Durations, a \in Artifacts, m \in Metas}
Documents == {MkDict([message |-> m]) : m \in Messages}

\* Inputs of process_webhooks: rows whose payload is a document, an encoded
\* document, plain JSON text, undecodable text, JSON text of a list, a
\* document with an unhashable id, a document without an id, or missing.
Rows ==
    {DictV([payload |-> CallDoc(StrV("A"), IntV(10))]),
     DictV([payload |-> CallDoc(StrV("A"), IntV(20))]),
     DictV([payload |-> Encoded(CallDoc(StrV("B"), IntV(10)))]),
     DictV([payload |-> json_dumps(CallDoc(StrV("C"), IntV(10)))]),
     DictV([payload |-> Text(Raise("binascii.Error"), Raise("JSONDecodeError"))]),
     DictV([payload |-> json_dumps(ListV(<<IntV(1)>>))]),
     DictV([payload |-> CallDoc(ListV(<<StrV("x")>>), IntV(10))]),
     DictV([payload |-> EmptyDict]),
     EmptyDict}

----------------------------------------------------------------------------
(* State machines *)

Pending == [st |-> "pending"]
Idle == [st |-> "idle"]

IdleDecode == payload = None /\ decoded = Idle
IdleExtract == document = None /\ call_data = Idle
IdleProcess ==
    /\ webhooks = <<>>
    /\ i = 0
    /\ results = <<>>
    /\ seen_call_ids = {}
    /\ pc = "idle"
IdleFetch ==
    /\ store = {}
    /\ start_date = 0
    /\ offset = 0
    /\ all_webhooks = <<>>
    /\ fpc = "idle"

\* decode_payload is called on a payload.
InitDecode ==
    /\ payload \in DecodePayloads
    /\ decoded = Pending
    /\ IdleExtract /\ IdleProcess /\ IdleFetch

DecodeCall ==
    /\ decoded = Pending
    /\ decoded' = decode_payload(payload)
    /\ UNCHANGED << payload, extractVars, processVars, fetchVars >>

NextDecode == DecodeCall
SpecDecode == InitDecode /\ [][NextDecode]_vars

\* extract_call_data is called on a document.
InitExtract ==
    /\ document \in Documents
    /\ call_data = Pending
    /\ IdleDecode /\ IdleProcess /\ IdleFetch

ExtractCall ==
    /\ call_data = Pending
    /\ call_data' = extract_call_data(document)
    /\ UNCHANGED << document, decodeVars, processVars, fetchVars >>

NextExtract == ExtractCall
SpecExtract == InitExtract /\ [][NextExtract]_vars

\* process_webhooks is called on a list of rows; i rows have been processed.
Init ==
    /\ webhooks \in SeqsUpTo(Rows, MaxLen)
    /\ i = 0
    /\ results = <<>>
    /\ seen_call_ids = {}
    /\ pc = "loop"
    /\ IdleDecode /\ IdleExtract /\ IdleFetch

\* One iteration of the loop of line 180; an exception ends the call.
Iterate ==
    /\ pc = "loop"
    /\ i < Len(webhooks)
    /\ LET out == LoopBody(webhooks[i + 1], results, seen_call_ids)
       IN  /\ results' = out.results
           /\ seen_call_ids' = out.seen
           /\ pc' = IF out.st = "ok" THEN "loop" ELSE "raised"
    /\ i' = i + 1
    /\ UNCHANGED << webhooks, decodeVars, extractVars, fetchVars >>

\* The return of line 192, once the loop has run out.
Return ==
    /\ pc = "loop"
    /\ i = Len(webhooks)
    /\ pc' = "done"
    /\ UNCHANGED << webhooks, i, results, seen_call_ids,
                    decodeVars, extractVars, fetchVars >>

Next == Iterate \/ Return
Spec == Init /\ [][Next]_vars

\* fetch_webhooks is called on a store that does not change.
InitFetch ==
    /\ store \in SUBSET (1..MaxStamp)
    /\ start_date \in 1..MaxStart
    /\ offset = 0
    /\ all_webhooks = <<>>
    /\ fpc = "loop"
    /\ IdleDecode /\ IdleExtract /\ IdleProcess

\* One iteration of the loop of lines 145-163.
FetchPage ==
    /\ fpc = "loop"
    /\ LET page == Query(store, start_date, offset, offset + page_size - 1)
       IN  /\ all_webhooks' = all_webhooks \o page
           /\ IF Len(page) < page_size
              THEN fpc' = "done" /\ offset' = offset
              ELSE fpc' = "loop" /\ offset' = offset + page_size
    /\ UNCHANGED << store, start_date, decodeVars, extractVars, processVars >>

NextFetch == FetchPage
SpecFetch == InitFetch /\ [][NextFetch]_vars
FairSpecFetch == SpecFetch /\ WF_vars(FetchPage)

----------------------------------------------------------------------------
(* Vocabulary of the properties *)

Returned(r) == r.st = "ok"
IsRecord(r) == Returned(r) /\ IsDict(r.v)

\* Field key of the mapping v, Absent when v is no mapping or lacks the key.
Field(v, key) ==
    IF v.t = "dict" /\ key \in DOMAIN v.d THEN v.d[key] ELSE Absent

\* A field that is missing reads as None.
OrNone(v) == IF v = Absent THEN None ELSE v

MessageOf(doc) == Field(doc, "message")
IdOf(doc) == Field(Field(MessageOf(doc), "call"), "id")
MessagesOf(doc) == Field(Field(MessageOf(doc), "artifact"), "messages")

\* What the call made of webhook w alone.
RecordOf(w) ==
    LET p == decode_payload(OrNone(Field(w, "payload")))
    IN  IF "payload" \notin DOMAIN w.d THEN extract_call_data(EmptyDict)
        ELSE IF Returned(p) THEN extract_call_data(p.v) ELSE p
YieldsRecord(w) == IsRecord(RecordOf(w))
CallIdOf(w) == RecordOf(w).v.d.callID

\* The positions of ws that yield a record whose callID no earlier position
\* yields, and their records in input order.
FirstSeen(ws) ==
    {k \in 1..Len(ws) :
        /\ YieldsRecord(ws[k])
        /\ \A j \in 1..(k - 1) :
              ~(YieldsRecord(ws[j]) /\ CallIdOf(ws[j]) = CallIdOf(ws[k]))}
Expected(ws) ==
    LET kept == SelectSeq([k \in 1..Len(ws) |-> k],
                          LAMBDA k : k \in FirstSeen(ws))
    IN  [n \in 1..Len(kept) |-> RecordOf(ws[kept[n]]).v]

----------------------------------------------------------------------------
(* C1: at every point of process_webhooks no two entries of results share   *)
(* a callID, and a step only ever appends to results: every entry stays at  *)
(* its position with its value.                                             *)

NoSharedCallID ==
    \A a, b \in 1..Len(results) :
        a # b => results[a].d.callID # results[b].d.callID

AppendOnly ==
    /\ Len(results') >= Len(results)
    /\ SubSeq(results', 1, Len(results)) = results

C1_OnePerCallID == []NoSharedCallID /\ [][AppendOnly]_vars

\* A later record with the callID of an earlier one, and other field values,
\* has been processed and results still holds the first.
C1_Witness ==
    /\ pc = "loop"
    /\ \E j, k \in 1..i :
          /\ j < k
          /\ YieldsRecord(webhooks[j]) /\ YieldsRecord(webhooks[k])
          /\ CallIdOf(webhooks[j]) = CallIdOf(webhooks[k])
          /\ RecordOf(webhooks[j]) # RecordOf(webhooks[k])
          /\ \E n \in 1..Len(results) : results[n] = RecordOf(webhooks[j]).v

(* C2: for every input, process_webhooks returns the records of the         *)
(* positions that first yield their callID, in input order, each with the   *)
(* field values of that first occurrence.                                   *)

C2_FirstSeenOrder ==
    pc \in {"done", "raised"} => pc = "done" /\ results = Expected(webhooks)

(* C3: whatever the payloads are, process_webhooks never raises.            *)

C3_NeverAborts == pc # "raised"

----------------------------------------------------------------------------
(* C4: decode_payload returns for every input, and what it returns is a     *)
(* mapping: the input itself when that is a mapping, the parsed document    *)
(* or the empty mapping for a string, the empty mapping for anything else.  *)

C4_TotalMapping ==
    decoded # Pending =>
        /\ Returned(decoded)
        /\ IsDict(decoded.v)
        /\ IsDict(payload) => decoded.v = payload
        /\ ~IsDict(payload) /\ ~IsStr(payload) => decoded.v = EmptyDict

(* C5: on a string, the first strategy that succeeds gives the result:      *)
(* base64, gzip, UTF-8 and JSON in a row, else JSON of the string itself,   *)
(* else the empty mapping; so an encoded document and a document dumped as  *)
(* JSON both decode to the document.                                        *)

\* The string s holds the document v under base64 + gzip + UTF-8 + JSON;
\* the string s is the JSON text of v.
HoldsEncoded(s, v) ==
    /\ Returned(b64decode(s))
    /\ Returned(gzip_decompress(b64decode(s).v))
    /\ Returned(bytes_decode(gzip_decompress(b64decode(s).v).v))
    /\ json_loads(bytes_decode(gzip_decompress(b64decode(s).v).v).v) = Ok(v)
HoldsJson(s, v) == json_loads(s) = Ok(v)
ParsedValues == JsonValues \cup {IntV(7)}

C5_StrategyOrder ==
    decoded # Pending /\ IsStr(payload) =>
        /\ \A v \in ParsedValues :
              /\ HoldsEncoded(payload, v) => decoded = Ok(v)
              /\ payload = Encoded(v) => decoded = Ok(v)
              /\ payload = json_dumps(v) => decoded = Ok(v)
              /\ HoldsJson(payload, v)
                   /\ ~(\E w \in ParsedValues : HoldsEncoded(payload, w))
                   => decoded = Ok(v)
        /\ ~(\E v \in ParsedValues :
                HoldsEncoded(payload, v) \/ HoldsJson(payload, v))
             => decoded = Ok(EmptyDict)

\* A string that both strategies can read, to different documents, has been
\* decoded to the document of the first strategy.
C5_Witness ==
    /\ decoded # Pending
    /\ \E v, w \in ParsedValues :
          /\ v # w
          /\ HoldsEncoded(payload, v)
          /\ HoldsJson(payload, w)
          /\ decoded = Ok(v)

----------------------------------------------------------------------------
(* C6: extract_call_data returns None exactly when message.call.id is       *)
(* missing or falsy, and in every other case a record whose callID is that  *)
(* id and whose dashboardURL is the base URL, the query template and the    *)
(* id as the c parameter.                                                   *)

C6_RecordIffCallId ==
    call_data # Pending =>
        LET id == IdOf(document)
        IN  IF id = Absent \/ ~Truthy(id)
            THEN call_data = Ok(None)
            ELSE /\ IsRecord(call_data)
                 /\ call_data.v.d.callID = id
                 /\ call_data.v.d.dashboardURL =
                        StrV(DASHBOARD_BASE_URL \o "?" \o DASHBOARD_PARAMS
                                \o "&c=" \o PyStr(id))

(* C7: difference is present exactly when vapiCallDuration and              *)
(* lastMessageTimeStamp are both present and both convert to a number, and  *)
(* is then their numeric difference; an operand that is absent or does not  *)
(* convert leaves difference absent and raises nothing.                     *)

\* float() reads v, and the number it reads.
Converts(v) ==
    \/ v.t \in {"float", "bool"}
    \/ v.t = "int" /\ v.n <= FloatMax /\ v.n >= -FloatMax
    \/ v.t = "str" /\ IsNumeral(v.s)
Number(v) ==
    CASE v.t = "float" -> v.x
      [] v.t = "int" -> v.n
      [] v.t = "bool" -> IF v.b THEN 1 ELSE 0
      [] v.t = "str" -> NumeralValue(v.s)

\* The document has an id and a well-formed artifact, so that nothing but
\* the conversion of the two operands can fail.
WellFormed(doc) ==
    /\ IdOf(doc) # Absent /\ Truthy(IdOf(doc))
    /\ Field(MessageOf(doc), "artifact") = Absent
         \/ /\ IsDict(Field(MessageOf(doc), "artifact"))
            /\ \/ MessagesOf(doc) \in {Absent, None}
               \/ /\ MessagesOf(doc).t = "list"
                  /\ \A k \in 1..Len(MessagesOf(doc).l) :
                        IsDict(MessagesOf(doc).l[k])

C7_Difference ==
    /\ IsRecord(call_data) =>
          LET rec == call_data.v.d
              both == /\ rec.vapiCallDuration # None
                      /\ rec.lastMessageTimeStamp # None
                      /\ Converts(rec.vapiCallDuration)
                      /\ Converts(rec.lastMessageTimeStamp)
          IN  /\ rec.difference # None <=> both
              /\ both => rec.difference =
                            FloatV(Number(rec.vapiCallDuration)
                                     - Number(rec.lastMessageTimeStamp))
    /\ call_data # Pending /\ WellFormed(document) => IsRecord(call_data)

(* C8: lastMessageTimeStamp is the secondsFromStart of the element at the   *)
(* last position of message.artifact.messages, absent when artifact or      *)
(* messages is missing or messages is empty.                                *)

LastPositional ==
    IsRecord(call_data) =>
        LET ms == MessagesOf(document)
            lmt == call_data.v.d.lastMessageTimeStamp
        IN  /\ ms = Absent \/ ms = EmptyList => lmt = None
            /\ ms # Absent /\ ms.t = "list" /\ Len(ms.l) > 0 =>
                  lmt = OrNone(Field(ms.l[Len(ms.l)], "secondsFromStart"))

\* Every entry of messages carries an int secondsFromStart.
Timed(ms) ==
    /\ ms # Absent /\ ms.t = "list" /\ Len(ms.l) > 0
    /\ \A k \in 1..Len(ms.l) :
          Field(ms.l[k], "secondsFromStart") # Absent
            /\ Field(ms.l[k], "secondsFromStart").t = "int"
Stamp(ms, k) == ms.l[k].d.secondsFromStart.n
Chronological(ms) ==
    \A j, k \in 1..Len(ms.l) : j < k => Stamp(ms, j) <= Stamp(ms, k)
IsLatest(ms, n) ==
    /\ \E k \in 1..Len(ms.l) : Stamp(ms, k) = n
    /\ \A k \in 1..Len(ms.l) : Stamp(ms, k) <= n

\* As claimed: it is also the timestamp of the chronologically last entry.
C8_ChronologicallyLast ==
    /\ LastPositional
    /\ IsRecord(call_data) /\ Timed(MessagesOf(document)) =>
          /\ call_data.v.d.lastMessageTimeStamp.t = "int"
          /\ IsLatest(MessagesOf(document),
                      call_data.v.d.lastMessageTimeStamp.n)

\* As amended: it is that timestamp when the entries are in chronological
\* order.
C8_LastByPosition ==
    /\ LastPositional
    /\ ( /\ IsRecord(call_data)
         /\ Timed(MessagesOf(document))
         /\ Chronological(MessagesOf(document)) )
       => /\ call_data.v.d.lastMessageTimeStamp.t = "int"
          /\ IsLatest(MessagesOf(document),
                      call_data.v.d.lastMessageTimeStamp.n)

\* A record was extracted from messages whose last entry is earlier than
\* the one before it.
C8_Witness ==
    /\ IsRecord(call_data)
    /\ Timed(MessagesOf(document))
    /\ Len(MessagesOf(document).l) = 2
    /\ Stamp(MessagesOf(document), 1) > Stamp(MessagesOf(document), 2)
    /\ call_data.v.d.lastMessageTimeStamp =
          IntV(Stamp(MessagesOf(document), 2))

(* C9: the record carries message.durationSeconds, startedAt, endedAt and   *)
(* endedReason exactly as the document has them, None when missing, and     *)
(* the call leaves the document as it was.                                  *)

RawFields ==
    IsRecord(call_data) =>
        LET m == MessageOf(document)
            rec == call_data.v.d
        IN  /\ rec.vapiCallDuration = OrNone(Field(m, "durationSeconds"))
            /\ rec.startedAt = OrNone(Field(m, "startedAt"))
            /\ rec.endedAt = OrNone(Field(m, "endedAt"))
            /\ rec.endedReason = OrNone(Field(m, "endedReason"))

C9_RawFields == []RawFields /\ [][document' = document]_vars

\* A record whose difference was computed from a duration that is no float
\* still carries the duration as the document has it.
C9_Witness ==
    /\ IsRecord(call_data)
    /\ call_data.v.d.difference # None
    /\ call_data.v.d.vapiCallDuration = StrV("7")
    /\ call_data.v.d.startedAt = StrV("s")

----------------------------------------------------------------------------
(* C10: on a store that does not change, the loop of fetch_webhooks ends,   *)
(* and it returns every row of the window once, latest first; it asks for   *)
(* the ranges that start at 0, page_size, 2 * page_size, ... and stops at   *)
(* the first page with fewer than page_size rows, an empty one when the     *)
(* number of rows is a multiple of page_size.                               *)

Window == {r \in store : r >= start_date}

\* seq lists the elements of S, each once, largest first.
ListsDescending(seq, S) ==
    /\ Len(seq) = Cardinality(S)
    /\ {seq[k] : k \in 1..Len(seq)} = S
    /\ \A j, k \in 1..Len(seq) : j < k => seq[j] > seq[k]

FetchInvariant ==
    /\ fpc = "loop" =>
          /\ offset % page_size = 0
          /\ offset <= Cardinality(Window)
          /\ Len(all_webhooks) = offset
    /\ fpc = "done" =>
          /\ ListsDescending(all_webhooks, Window)
          /\ offset = (Cardinality(Window) \div page_size) * page_size

ConsecutiveRanges ==
    \/ offset' = offset + page_size /\ fpc' = "loop"
    \/ offset' = offset /\ fpc' = "done"

C10_FetchAll ==
    /\ <>(fpc = "done")
    /\ []FetchInvariant
    /\ [][ConsecutiveRanges]_vars

\* The fetch ended on an empty page, after a full one.
C10_Witness ==
    /\ fpc = "done"
    /\ offset = page_size
    /\ Len(all_webhooks) = page_size
    /\ Cardinality(store) > Cardinality(Window)

====
